---- MODULE Spec2Model ----
(***************************************************************************)
(* Verification model of just's error catalog (src/error.rs): the Error    *)
(* sum type, its accessors code(), context() and print_message(), and the  *)
(* ColorDisplay formatter that renders an Error as prefix, primary         *)
(* message, suffix, usage line and source excerpt.                         *)
(*                                                                         *)
(* Text is modelled as a sequence of runs.  Every literal piece of a       *)
(* format string and every interpolated field is one run; a line break is  *)
(* always a run of its own (NL), so that "is a single line" is a property  *)
(* of the run sequence.  Each run written by fmt carries the stage of fmt  *)
(* that wrote it (a history tag; the text itself is the text field).  The  *)
(* backquote of the source's messages is written ' in the literals below.  *)
(***************************************************************************)
EXTENDS Integers, Sequences, FiniteSets, TLC

VARIABLES
  error,        \* the Error value under inspection (self)
  color,        \* the Color policy handed to fmt
  out,          \* what fmt wrote to the Formatter
  exit_code,    \* what code() returned
  printed,      \* what print_message() returned
  called,       \* which of code / print_message / fmt have been applied
  invocation,   \* Binder: the recipe signature and the supplied arguments
  bound,        \* Binder: None, or Some(outcome of selecting and binding)
  table,        \* Planner: the recipe table
  requests,     \* Planner: the invocation requests
  plan,         \* Planner: the execution plan
  executed,     \* Planner: the plan entries run so far, in order
  phase         \* Planner: "requested", "planned", "done" or "failed"

vars == <<error, color, out, exit_code, printed, called,
          invocation, bound, table, requests, plan, executed, phase>>

errorVars == <<error, color, out, exit_code, printed, called>>
bindVars  == <<invocation, bound>>
planVars  == <<table, requests, plan, executed, phase>>

(***************************************************************************)
(* Bounds of the model.                                                    *)
(***************************************************************************)
MaxArgs   == 2   \* found, min, max of an arity mismatch range over 0..MaxArgs
MaxParams == 2   \* a recipe declares at most MaxParams parameters
MaxLine   == 2   \* recipe line numbers range over 1..MaxLine
MaxCode   == 3   \* exit codes range over 1..MaxCode

(***************************************************************************)
(* Option<T>: None is the empty sequence, Some(x) the one-element one.     *)
(***************************************************************************)
None == <<>>
Some(x) == <<x>>

NL == "\n"

RECURSIVE SeqsUpTo(_, _)
SeqsUpTo(S, n) ==
  IF n = 0 THEN {<<>>}
  ELSE LET shorter == SeqsUpTo(S, n - 1)
       IN shorter \cup {Append(s, x) : s \in {t \in shorter : Len(t) = n - 1}, x \in S}

Distinct(s) == \A i, j \in 1..Len(s) : i # j => s[i] # s[j]

(***************************************************************************)
(* Field domains.                                                          *)
(***************************************************************************)
Recipes     == {"build", "test"}
ParamNames  == {"a", "b", "c"}
Parameters  == {p \in SeqsUpTo(ParamNames, MaxParams) : Distinct(p)}
Counts      == 0..MaxArgs
Codes       == 1..MaxCode
Signals     == {9}
LineNumbers == {None} \cup {Some(n) : n \in 1..MaxLine}
Tokens      == {"token@1:5"}
IoKinds     == {"NotFound", "PermissionDenied", "TimedOut", "Other"}
IoErrors    == [kind : IoKinds]
ExitStatuses == {[code |-> Some(c)] : c \in Codes} \cup {[code |-> None]}
Suggestions == {None, Some("variable")}
Colors      == {"never", "always"}

OutputErrors ==
       {[tag |-> "Code", code |-> c] : c \in Codes}
  \cup {[tag |-> "Signal", signal |-> s] : s \in Signals}
  \cup {[tag |-> "Unknown"]}
  \cup {[tag |-> "Io", io_error |-> io] : io \in IoErrors}
  \cup {[tag |-> "Utf8", utf8_error |-> "invalid utf-8 sequence"]}

(***************************************************************************)
(* The Error sum type: one record shape per variant, tagged by its variant. *)
(***************************************************************************)
ArgumentCountMismatch(recipe, parameters, found, min, max) ==
  [variant |-> "ArgumentCountMismatch", recipe |-> recipe, parameters |-> parameters,
   found |-> found, min |-> min, max |-> max]

Code(recipe, line_number, c, print) ==
  [variant |-> "Code", recipe |-> recipe, line_number |-> line_number,
   code |-> c, print_message |-> print]

DefaultRecipeRequiresArguments(recipe, min_arguments) ==
  [variant |-> "DefaultRecipeRequiresArguments", recipe |-> recipe,
   min_arguments |-> min_arguments]

\* The arity errors the program constructs have min <= max (min counts the
\* required parameters, max all of them); found is any count, inside the
\* range or not, since the type itself does not relate it to min and max.
ArityErrors ==
  {ArgumentCountMismatch(r, ps, n, lo, hi) :
     r \in Recipes, ps \in Parameters,
     n \in Counts, lo \in Counts, hi \in Counts}

ArgumentErrors ==
       {e \in ArityErrors : e.min <= e.max}
  \cup {DefaultRecipeRequiresArguments(r, n) : r \in Recipes, n \in Counts \ {0}}

RecipeOutcomeErrors ==
       {Code(r, ln, c, p) : r \in Recipes, ln \in LineNumbers, c \in Codes, p \in BOOLEAN}
  \cup {[variant |-> "Signal", recipe |-> r, line_number |-> ln, signal |-> s] :
          r \in Recipes, ln \in LineNumbers, s \in Signals}
  \cup {[variant |-> "Unknown", recipe |-> r, line_number |-> ln] :
          r \in Recipes, ln \in LineNumbers}

LaunchErrors ==
       {[variant |-> "Backtick", token |-> t, output_error |-> oe] :
          t \in Tokens, oe \in OutputErrors}
  \cup {[variant |-> "Cygpath", recipe |-> r, output_error |-> oe] :
          r \in Recipes, oe \in OutputErrors}
  \cup {[variant |-> "Io", recipe |-> r, io_error |-> io] : r \in Recipes, io \in IoErrors}
  \cup {[variant |-> "TmpdirIo", recipe |-> r, io_error |-> io] : r \in Recipes, io \in IoErrors}
  \cup {[variant |-> "Shebang", recipe |-> r, command |-> "/usr/bin/env", argument |-> a,
         io_error |-> io] : r \in Recipes, a \in {None, Some("bash")}, io \in IoErrors}

ToolErrors ==
       {[variant |-> "ChooserInvoke", shell_binary |-> "sh", shell_arguments |-> "-cu",
         chooser |-> "fzf", io_error |-> io] : io \in IoErrors}
  \cup {[variant |-> "ChooserRead", chooser |-> "fzf", io_error |-> io] : io \in IoErrors}
  \cup {[variant |-> "ChooserStatus", chooser |-> "fzf", status |-> st] : st \in ExitStatuses}
  \cup {[variant |-> "ChooserWrite", chooser |-> "fzf", io_error |-> io] : io \in IoErrors}
  \cup {[variant |-> "CommandInvoke", binary |-> "git", arguments |-> as, io_error |-> io] :
          as \in {<<>>, <<"status">>}, io \in IoErrors}
  \cup {[variant |-> "CommandStatus", binary |-> "git", arguments |-> as, status |-> st] :
          as \in {<<>>, <<"status">>}, st \in ExitStatuses}
  \cup {[variant |-> "EditorInvoke", editor |-> "vim", io_error |-> io] : io \in IoErrors}
  \cup {[variant |-> "EditorStatus", editor |-> "vim", status |-> st] : st \in ExitStatuses}

EvaluationErrors ==
       {[variant |-> "EvalUnknownVariable", variable |-> "varaible", suggestion |-> sg] :
          sg \in Suggestions}
  \cup {[variant |-> "FunctionCall", function |-> t, message |-> "boom"] : t \in Tokens}
  \cup {[variant |-> "UnknownOverrides", overrides |-> os] : os \in {<<"x">>, <<"x", "y">>}}
  \cup {[variant |-> "UnknownRecipes", recipes |-> rs, suggestion |-> sg] :
          rs \in {<<"biuld">>, <<"biuld", "tset">>}, sg \in Suggestions}
  \cup {[variant |-> "Unstable", message |-> "The !include directive is currently unstable."]}

OtherErrors ==
       {[variant |-> "CircularInclude", current |-> "justfile", include |-> "justfile"]}
  \cup {[variant |-> "Compile", compile_error |-> [token |-> t]] : t \in Tokens}
  \cup {[variant |-> "Config", config_error |-> "config error"]}
  \cup {[variant |-> "Dotenv", dotenv_error |-> "dotenv error"]}
  \cup {[variant |-> "DumpJson", serde_json_error |-> "json error"]}
  \cup {[variant |-> "FormatCheckFoundDiff"], [variant |-> "NoChoosableRecipes"],
        [variant |-> "NoRecipes"]}
  \cup {[variant |-> "IncludeMissingPath", file |-> "justfile", line |-> n] : n \in 1..MaxLine}
  \cup {[variant |-> "InitExists", justfile |-> "justfile"]}
  \cup {[variant |-> "Internal", message |-> "boom"]}
  \cup {[variant |-> "InvalidDirective", line |-> "!inclde"]}
  \cup {[variant |-> "Load", path |-> "justfile", io_error |-> io] : io \in IoErrors}
  \cup {[variant |-> "RegexCompile", source |-> "regex parse error"]}
  \cup {[variant |-> "Search", search_error |-> "search error"]}
  \cup {[variant |-> "WriteJustfile", justfile |-> "justfile", io_error |-> io] :
          io \in IoErrors}

Errors ==
  ArgumentErrors \cup RecipeOutcomeErrors \cup LaunchErrors \cup ToolErrors
    \cup EvaluationErrors \cup OtherErrors

Variants == {e.variant : e \in Errors}

(***************************************************************************)
(* Accessors of Error.                                                     *)
(***************************************************************************)

\* ExitStatus::code(): Some(c) for a process that exited, None for one that
\* was terminated by a signal.
StatusCode(status) == status.code

\* fault: code() with the Backtick pattern of its first arm dropped
code_NoBacktick(e) ==
  CASE e.variant = "Code" -> Some(e.code)
    [] e.variant \in {"ChooserStatus", "EditorStatus"} -> StatusCode(e.status)
    [] OTHER -> None

\* Error::code
code(e) ==
  CASE e.variant = "Code" -> Some(e.code)
    [] e.variant = "Backtick" /\ e.output_error.tag = "Code" -> Some(e.output_error.code)
    [] e.variant \in {"ChooserStatus", "EditorStatus"} -> StatusCode(e.status)
    [] OTHER -> None

\* fault: context() also yielding a token for IncludeMissingPath
context_AlsoFormatted(e) ==
  CASE e.variant = "Backtick" -> Some(e.token)
    [] e.variant = "Compile" -> Some(e.compile_error.token)
    [] e.variant = "FunctionCall" -> Some(e.function)
    [] e.variant = "IncludeMissingPath" -> Some("token@1:1")
    [] OTHER -> None

\* Error::context
context(e) ==
  CASE e.variant = "Backtick" -> Some(e.token)
    [] e.variant = "Compile" -> Some(e.compile_error.token)
    [] e.variant = "FunctionCall" -> Some(e.function)
    [] OTHER -> None

\* fault: print_message() also false for Unstable
print_message_UnstableSilent(e) ==
  ~ (  (e.variant = "Code" /\ e.print_message = FALSE)
    \/ e.variant = "Unstable")

\* Error::print_message
print_message(e) == ~ (e.variant = "Code" /\ e.print_message = FALSE)

(***************************************************************************)
(* Renderings of the field types (their Display implementations).          *)
(***************************************************************************)
Count(noun, n) == IF n = 1 THEN noun ELSE noun \o "s"

Tick(s) == "'" \o s \o "'"

RECURSIVE Join(_, _)
Join(words, sep) ==
  IF Len(words) = 0 THEN ""
  ELSE IF Len(words) = 1 THEN words[1]
  ELSE words[1] \o sep \o Join(Tail(words), sep)

Ticked(words) == [i \in 1..Len(words) |-> Tick(words[i])]

List(conjunction, words) ==
  IF Len(words) <= 1 THEN Join(Ticked(words), "")
  ELSE IF Len(words) = 2 THEN Join(Ticked(words), " " \o conjunction \o " ")
  ELSE Join(Ticked(SubSeq(words, 1, Len(words) - 1)), ", ")
         \o ", " \o conjunction \o " " \o Tick(words[Len(words)])

ordinal(line) == line + 1

IoErrorDisplay(io_error) == "io error (" \o io_error.kind \o ")"

ExitStatusDisplay(status) ==
  IF status.code = None THEN "signal: 9" ELSE "exit status: " \o ToString(status.code[1])

\* format_cmd
format_cmd(binary, arguments) == Join(Ticked(<<binary>> \o arguments), " ")

(***************************************************************************)
(* Color: with color disabled a style's prefix and suffix are empty.       *)
(***************************************************************************)
StylePrefix(c, style) == IF c = "always" THEN "<" \o style \o ">" ELSE ""
StyleSuffix(c) == IF c = "always" THEN "<reset>" ELSE ""
Paint(c, style, text) == <<StylePrefix(c, style), text, StyleSuffix(c)>>

(***************************************************************************)
(* The arms of the match in ColorDisplay::fmt.  Each yields the runs its   *)
(* write! calls produce, in order; an empty run writes nothing.            *)
(***************************************************************************)

\* fault: the comparison deciding "only " reversed
ArgumentCountMismatchArm_OnlyFlipped(e) ==
  LET count == Count("argument", e.found) IN
  IF e.min = e.max THEN
    LET expected == e.min
        only == IF expected > e.found THEN "only " ELSE ""
    IN <<"Recipe '", e.recipe, "' got ", ToString(e.found), " ", count,
         " but ", only, "takes ", ToString(expected)>>
  ELSE IF e.found < e.min THEN
    <<"Recipe '", e.recipe, "' got ", ToString(e.found), " ", count,
      " but takes at least ", ToString(e.min)>>
  ELSE IF e.found > e.max THEN
    <<"Recipe '", e.recipe, "' got ", ToString(e.found), " ", count,
      " but takes at most ", ToString(e.max)>>
  ELSE <<>>

\* fault: the last branch taken without its found > max test
ArgumentCountMismatchArm_AlwaysSpeaks(e) ==
  LET count == Count("argument", e.found) IN
  IF e.min = e.max THEN
    LET expected == e.min
        only == IF expected < e.found THEN "only " ELSE ""
    IN <<"Recipe '", e.recipe, "' got ", ToString(e.found), " ", count,
         " but ", only, "takes ", ToString(expected)>>
  ELSE IF e.found < e.min THEN
    <<"Recipe '", e.recipe, "' got ", ToString(e.found), " ", count,
      " but takes at least ", ToString(e.min)>>
  ELSE
    <<"Recipe '", e.recipe, "' got ", ToString(e.found), " ", count,
      " but takes at most ", ToString(e.max)>>

\* ArgumentCountMismatch { recipe, found, min, max, .. }
ArgumentCountMismatchArm(e) ==
  LET count == Count("argument", e.found) IN
  IF e.min = e.max THEN
    LET expected == e.min
        only == IF expected < e.found THEN "only " ELSE ""
    IN <<"Recipe '", e.recipe, "' got ", ToString(e.found), " ", count,
         " but ", only, "takes ", ToString(expected)>>
  ELSE IF e.found < e.min THEN
    <<"Recipe '", e.recipe, "' got ", ToString(e.found), " ", count,
      " but takes at least ", ToString(e.min)>>
  ELSE IF e.found > e.max THEN
    <<"Recipe '", e.recipe, "' got ", ToString(e.found), " ", count,
      " but takes at most ", ToString(e.max)>>
  ELSE <<>>

\* Backtick { output_error, .. }
BacktickArm(e) ==
  LET oe == e.output_error IN
  CASE oe.tag = "Code" -> <<"Backtick failed with exit code ", ToString(oe.code)>>
    [] oe.tag = "Signal" -> <<"Backtick was terminated by signal ", ToString(oe.signal)>>
    [] oe.tag = "Unknown" -> <<"Backtick failed for an unknown reason">>
    [] oe.tag = "Io" ->
         CASE oe.io_error.kind = "NotFound" ->
                <<"Backtick could not be run because just could not find the shell:",
                  NL, IoErrorDisplay(oe.io_error)>>
           [] oe.io_error.kind = "PermissionDenied" ->
                <<"Backtick could not be run because just could not run the shell:",
                  NL, IoErrorDisplay(oe.io_error)>>
           [] OTHER ->
                <<"Backtick could not be run because of an IO error while launching the shell:",
                  NL, IoErrorDisplay(oe.io_error)>>
    [] oe.tag = "Utf8" -> <<"Backtick succeeded but stdout was not utf8: ", oe.utf8_error>>

\* fault: the line number ignored
CodeArm_NoLine(e) ==
  <<"Recipe '", e.recipe, "' failed with exit code ", ToString(e.code)>>

\* Code { recipe, line_number, code, .. }
CodeArm(e) ==
  IF e.line_number # None THEN
    LET n == e.line_number[1] IN
    <<"Recipe '", e.recipe, "' failed on line ", ToString(n),
      " with exit code ", ToString(e.code)>>
  ELSE
    <<"Recipe '", e.recipe, "' failed with exit code ", ToString(e.code)>>

\* Cygpath { recipe, output_error }
CygpathArm(e) ==
  LET oe == e.output_error
      path == "' shebang interpreter path"
  IN
  CASE oe.tag = "Code" ->
         <<"Cygpath failed with exit code ", ToString(oe.code),
           " while translating recipe '", e.recipe, path>>
    [] oe.tag = "Signal" ->
         <<"Cygpath terminated by signal ", ToString(oe.signal),
           " while translating recipe '", e.recipe, path>>
    [] oe.tag = "Unknown" ->
         <<"Cygpath experienced an unknown failure while translating recipe '",
           e.recipe, path>>
    [] oe.tag = "Io" ->
         CASE oe.io_error.kind = "NotFound" ->
                <<"Could not find 'cygpath' executable to translate recipe '", e.recipe,
                  "' shebang interpreter path:", NL, IoErrorDisplay(oe.io_error)>>
           [] oe.io_error.kind = "PermissionDenied" ->
                <<"Could not run 'cygpath' executable to translate recipe '", e.recipe,
                  "' shebang interpreter path:", NL, IoErrorDisplay(oe.io_error)>>
           [] OTHER ->
                <<"Could not run 'cygpath' executable:", NL, IoErrorDisplay(oe.io_error)>>
    [] oe.tag = "Utf8" ->
         <<"Cygpath successfully translated recipe '", e.recipe,
           "' shebang interpreter path, but output was not utf8: ", oe.utf8_error>>

\* DefaultRecipeRequiresArguments { recipe, min_arguments }
DefaultRecipeRequiresArgumentsArm(e) ==
  LET count == Count("argument", e.min_arguments) IN
  <<"Recipe '", e.recipe,
    "' cannot be used as default recipe since it requires at least ",
    ToString(e.min_arguments), " ", count, ".">>

\* EvalUnknownVariable { variable, suggestion }
EvalUnknownVariableArm(e) ==
  <<"Justfile does not contain variable '", e.variable, "'.">>
    \o (IF e.suggestion # None THEN <<NL, e.suggestion[1]>> ELSE <<>>)

\* fault: the io error written on a line of its own, as the Backtick arm does
IoArm_OwnLine(e) ==
  CASE e.io_error.kind = "NotFound" ->
         <<"Recipe '", e.recipe,
           "' could not be run because just could not find the shell:",
           NL, IoErrorDisplay(e.io_error)>>
    [] e.io_error.kind = "PermissionDenied" ->
         <<"Recipe '", e.recipe,
           "' could not be run because just could not run the shell:",
           NL, IoErrorDisplay(e.io_error)>>
    [] OTHER ->
         <<"Recipe '", e.recipe,
           "' could not be run because of an IO error while launching the shell:",
           NL, IoErrorDisplay(e.io_error)>>

\* fault: the PermissionDenied pattern dropped
IoArm_DeniedIsGeneric(e) ==
  CASE e.io_error.kind = "NotFound" ->
         <<"Recipe '", e.recipe,
           "' could not be run because just could not find the shell: ",
           IoErrorDisplay(e.io_error)>>
    [] OTHER ->
         <<"Recipe '", e.recipe,
           "' could not be run because of an IO error while launching the shell: ",
           IoErrorDisplay(e.io_error)>>

\* Io { recipe, io_error }
IoArm(e) ==
  CASE e.io_error.kind = "NotFound" ->
         <<"Recipe '", e.recipe,
           "' could not be run because just could not find the shell: ",
           IoErrorDisplay(e.io_error)>>
    [] e.io_error.kind = "PermissionDenied" ->
         <<"Recipe '", e.recipe,
           "' could not be run because just could not run the shell: ",
           IoErrorDisplay(e.io_error)>>
    [] OTHER ->
         <<"Recipe '", e.recipe,
           "' could not be run because of an IO error while launching the shell: ",
           IoErrorDisplay(e.io_error)>>

\* Shebang { recipe, command, argument, io_error }
ShebangArm(e) ==
  IF e.argument # None THEN
    <<"Recipe '", e.recipe, "' with shebang '#!", e.command, " ", e.argument[1],
      "' execution error: ", IoErrorDisplay(e.io_error)>>
  ELSE
    <<"Recipe '", e.recipe, "' with shebang '#!", e.command,
      "' execution error: ", IoErrorDisplay(e.io_error)>>

\* Signal { recipe, line_number, signal }
SignalArm(e) ==
  IF e.line_number # None THEN
    LET n == e.line_number[1] IN
    <<"Recipe '", e.recipe, "' was terminated on line ", ToString(n),
      " by signal ", ToString(e.signal)>>
  ELSE
    <<"Recipe '", e.recipe, "' was terminated by signal ", ToString(e.signal)>>

\* Unknown { recipe, line_number }
UnknownArm(e) ==
  IF e.line_number # None THEN
    LET n == e.line_number[1] IN
    <<"Recipe '", e.recipe, "' failed on line ", ToString(n), " for an unknown reason">>
  ELSE
    <<"Recipe '", e.recipe, "' failed for an unknown reason">>

\* UnknownOverrides { overrides }
UnknownOverridesArm(e) ==
  LET count == Count("Variable", Len(e.overrides))
      overrides == List("and", e.overrides)
  IN <<count, " ", overrides,
       " overridden on the command line but not present in justfile">>

\* UnknownRecipes { recipes, suggestion }
UnknownRecipesArm(e) ==
  LET count == Count("recipe", Len(e.recipes))
      recipes == List("or", e.recipes)
  IN <<"Justfile does not contain ", count, " ", recipes, ".">>
       \o (IF e.suggestion # None THEN <<NL, e.suggestion[1]>> ELSE <<>>)

\* match self { ... }: the primary message of every variant.
Message(e) ==
  CASE e.variant = "ArgumentCountMismatch" -> ArgumentCountMismatchArm(e)
    [] e.variant = "Backtick" -> BacktickArm(e)
    [] e.variant = "ChooserInvoke" ->
         <<"Chooser '", e.shell_binary, " ", e.shell_arguments, " ", e.chooser,
           "' invocation failed: ", IoErrorDisplay(e.io_error)>>
    [] e.variant = "ChooserRead" ->
         <<"Failed to read output from chooser '", e.chooser, "': ",
           IoErrorDisplay(e.io_error)>>
    [] e.variant = "ChooserStatus" ->
         <<"Chooser '", e.chooser, "' failed: ", ExitStatusDisplay(e.status)>>
    [] e.variant = "ChooserWrite" ->
         <<"Failed to write to chooser '", e.chooser, "': ", IoErrorDisplay(e.io_error)>>
    [] e.variant = "CircularInclude" ->
         <<"Include '", e.include, "' in '", e.current, "' is a circular include">>
    [] e.variant = "Code" -> CodeArm(e)
    [] e.variant = "CommandInvoke" ->
         <<"Failed to invoke ", format_cmd(e.binary, e.arguments), ": ",
           IoErrorDisplay(e.io_error)>>
    [] e.variant = "CommandStatus" ->
         <<"Command ", format_cmd(e.binary, e.arguments), " failed: ",
           ExitStatusDisplay(e.status)>>
    [] e.variant = "Compile" -> <<"compile error at " \o e.compile_error.token>>
    [] e.variant = "Config" -> <<e.config_error>>
    [] e.variant = "Cygpath" -> CygpathArm(e)
    [] e.variant = "DefaultRecipeRequiresArguments" -> DefaultRecipeRequiresArgumentsArm(e)
    [] e.variant = "Dotenv" -> <<"Failed to load environment file: ", e.dotenv_error>>
    [] e.variant = "DumpJson" -> <<"Failed to dump JSON to stdout: ", e.serde_json_error>>
    [] e.variant = "EditorInvoke" ->
         <<"Editor '", e.editor, "' invocation failed: ", IoErrorDisplay(e.io_error)>>
    [] e.variant = "EditorStatus" ->
         <<"Editor '", e.editor, "' failed: ", ExitStatusDisplay(e.status)>>
    [] e.variant = "EvalUnknownVariable" -> EvalUnknownVariableArm(e)
    [] e.variant = "FormatCheckFoundDiff" -> <<"Formatted justfile differs from original.">>
    [] e.variant = "FunctionCall" ->
         <<"Call to function '", e.function, "' failed: ", e.message>>
    [] e.variant = "IncludeMissingPath" ->
         <<"!include directive on line ", ToString(ordinal(e.line)), " of '", e.file,
           "' has no argument">>
    [] e.variant = "InitExists" -> <<"Justfile '", e.justfile, "' already exists">>
    [] e.variant = "Internal" ->
         <<"Internal runtime error, this may indicate a bug in just: ", e.message,
           " consider filing an issue: https://github.com/casey/just/issues/new">>
    [] e.variant = "InvalidDirective" -> <<"Invalid directive: ", e.line>>
    [] e.variant = "Io" -> IoArm(e)
    [] e.variant = "Load" ->
         <<"Failed to read justfile at '", e.path, "': ", IoErrorDisplay(e.io_error)>>
    [] e.variant = "NoChoosableRecipes" -> <<"Justfile contains no choosable recipes.">>
    [] e.variant = "NoRecipes" -> <<"Justfile contains no recipes.">>
    [] e.variant = "RegexCompile" -> <<e.source>>
    [] e.variant = "Search" -> <<e.search_error>>
    [] e.variant = "Shebang" -> ShebangArm(e)
    [] e.variant = "Signal" -> SignalArm(e)
    [] e.variant = "TmpdirIo" ->
         <<"Recipe '", e.recipe,
           "' could not be run because of an IO error while trying to create a temporary directory or write a file to that directory':",
           IoErrorDisplay(e.io_error)>>
    [] e.variant = "Unknown" -> UnknownArm(e)
    [] e.variant = "UnknownOverrides" -> UnknownOverridesArm(e)
    [] e.variant = "UnknownRecipes" -> UnknownRecipesArm(e)
    [] e.variant = "Unstable" ->
         <<e.message,
           " Invoke 'just' with the '--unstable' flag to enable unstable features.">>
    [] e.variant = "WriteJustfile" ->
         <<"Failed to write justfile to '", e.justfile, "': ", IoErrorDisplay(e.io_error)>>

\* write!(f, ...): appends the non-empty runs to the formatter, each tagged
\* with the stage of fmt that wrote it.
Write(f, stage, runs) ==
  LET written == SelectSeq(runs, LAMBDA r : r # "")
  IN f \o [i \in 1..Len(written) |-> [stage |-> stage, text |-> written[i]]]

RECURSIVE UsageParameters(_)
UsageParameters(parameters) ==
  IF parameters = <<>> THEN <<>>
  ELSE <<" ", Head(parameters)>> \o UsageParameters(Tail(parameters))

ExcerptDisplay(token) == "excerpt of " \o token

\* ColorDisplay::fmt
fmt(e, c) ==
  LET f1 == Write(<<>>, "prefix",
                  Paint(c, "error", "error") \o <<": ", StylePrefix(c, "message")>>)
      f2 == Write(f1, "message", Message(e))
      f3 == Write(f2, "suffix", <<StyleSuffix(c)>>)
      f4 == IF e.variant = "ArgumentCountMismatch"
            THEN Write(Write(f3, "usage", <<NL>>), "usage",
                       Paint(c, "message", "usage") \o <<":", NL, "    just ", e.recipe>>
                         \o UsageParameters(e.parameters))
            ELSE f3
      f5 == IF context(e) # None
            THEN Write(Write(f4, "context", <<NL>>), "context",
                       <<ExcerptDisplay(context(e)[1])>>)
            ELSE f4
  IN f5

(***************************************************************************)
(* The error surface as a state machine: an Error value is produced, and   *)
(* its consumer asks it for its exit code, whether to print it, and its    *)
(* rendering, in any order, each at most once.                             *)
(***************************************************************************)
Unset == "unset"

Idle ==
  /\ invocation = Unset /\ bound = None
  /\ table = <<>> /\ requests = <<>> /\ plan = <<>> /\ executed = <<>>
  /\ phase = "idle"

Init ==
  /\ error \in Errors
  /\ color \in Colors
  /\ out = <<>>
  /\ exit_code = Unset
  /\ printed = Unset
  /\ called = {}
  /\ Idle

CallCode ==
  /\ "code" \notin called
  /\ exit_code' = code(error)
  /\ called' = called \cup {"code"}
  /\ UNCHANGED <<error, color, out, printed, bindVars, planVars>>

CallPrintMessage ==
  /\ "print_message" \notin called
  /\ printed' = print_message(error)
  /\ called' = called \cup {"print_message"}
  /\ UNCHANGED <<error, color, out, exit_code, bindVars, planVars>>

CallFmt ==
  /\ "fmt" \notin called
  /\ out' = fmt(error, color)
  /\ called' = called \cup {"fmt"}
  /\ UNCHANGED <<error, color, exit_code, printed, bindVars, planVars>>

Next == CallCode \/ CallPrintMessage \/ CallFmt

Spec == Init /\ [][Next]_vars

(***************************************************************************)
(* Vocabulary of the properties.                                           *)
(***************************************************************************)
StageText(f, stage) ==
  LET runs == SelectSeq(f, LAMBDA r : r.stage = stage)
  IN [i \in 1..Len(runs) |-> runs[i].text]

PrimaryMessage == StageText(out, "message")
UsageLine      == StageText(out, "usage")

Has(m, run) == \E i \in 1..Len(m) : m[i] = run
Follows(m, literal, value) == \E i \in 1..(Len(m) - 1) : m[i] = literal /\ m[i + 1] = value
Occurrences(m, S) == Cardinality({i \in 1..Len(m) : m[i] \in S})
LineBreaks(m) == Occurrences(m, {NL})

Rendered == "fmt" \in called

(***************************************************************************)
(* C1.  As claimed: code() is Some(c) for Code{code: c} whatever its       *)
(* print_message flag, is the code of the status for ChooserStatus and     *)
(* EditorStatus, and is None for every other error value.                  *)
(***************************************************************************)
C1_CodeOnlyFromRecipeChooserEditor ==
  "code" \in called =>
    /\ error.variant = "Code" => exit_code = Some(error.code)
    /\ error.variant \in {"ChooserStatus", "EditorStatus"} =>
         exit_code = StatusCode(error.status)
    /\ error.variant \notin {"Code", "ChooserStatus", "EditorStatus"} => exit_code = None

(***************************************************************************)
(* C1, amended.  code() is Some(c) for Code{code: c} whatever its          *)
(* print_message flag and also for a Backtick whose output error is the    *)
(* exit code c; for ChooserStatus and EditorStatus it is the code of the   *)
(* status (None when the status carries none); it is None for every other  *)
(* error value.                                                            *)
(***************************************************************************)
C1_CodeSurfaced ==
  "code" \in called =>
    LET backtickCode == error.variant = "Backtick" /\ error.output_error.tag = "Code" IN
    /\ error.variant = "Code" => exit_code = Some(error.code)
    /\ backtickCode => exit_code = Some(error.output_error.code)
    /\ error.variant \in {"ChooserStatus", "EditorStatus"} =>
         exit_code = StatusCode(error.status)
    /\ (error.variant \notin {"Code", "ChooserStatus", "EditorStatus"} /\ ~ backtickCode) =>
         exit_code = None

C1_Witness ==
  /\ "code" \in called
  /\ error.variant = "Backtick"
  /\ error.output_error.tag = "Code"
  /\ exit_code = Some(MaxCode)

(***************************************************************************)
(* C2.  As claimed: print_message() is false exactly for Code with         *)
(* print_message = false and for Unstable.                                 *)
(***************************************************************************)
C2_SilentForPassthroughAndUnstable ==
  "print_message" \in called =>
    (printed = FALSE <=>
       \/ (error.variant = "Code" /\ error.print_message = FALSE)
       \/ error.variant = "Unstable")

(***************************************************************************)
(* C2, amended.  print_message() is false exactly for Code with            *)
(* print_message = false; it is true for every other error value,          *)
(* Unstable included.                                                      *)
(***************************************************************************)
C2_SilentOnlyForPassthrough ==
  "print_message" \in called =>
    /\ printed \in BOOLEAN
    /\ printed = FALSE <=> (error.variant = "Code" /\ error.print_message = FALSE)

C2_Witness ==
  /\ "print_message" \in called
  /\ error.variant = "Unstable"
  /\ printed = TRUE

ExactForm(m, e)   == Follows(m, "' got ", ToString(e.found)) /\ Follows(m, "takes ", ToString(e.min))
AtLeastForm(m, e) == Follows(m, "' got ", ToString(e.found))
                       /\ Follows(m, " but takes at least ", ToString(e.min))
AtMostForm(m, e)  == Follows(m, "' got ", ToString(e.found))
                       /\ Follows(m, " but takes at most ", ToString(e.max))
ArityWords == {"takes ", "only ", " but takes at least ", " but takes at most "}

(***************************************************************************)
(* C3.  An ArgumentCountMismatch whose found lies outside [min, max] is    *)
(* rendered in exactly one of three forms: for min = max "got found ...    *)
(* but takes min", with "only" iff found > min; for min # max and          *)
(* found < min "takes at least min"; for min # max and found > max         *)
(* "takes at most max".                                                    *)
(***************************************************************************)
C3_ArityMessageForms ==
  (/\ Rendered
   /\ error.variant = "ArgumentCountMismatch"
   /\ (error.found < error.min \/ error.found > error.max)) =>
    LET m == PrimaryMessage
        e == error
    IN
    /\ Follows(m, "Recipe '", e.recipe)
    /\ e.min = e.max =>
         /\ ExactForm(m, e)
         /\ Has(m, "only ") <=> e.found > e.min
         /\ Occurrences(m, ArityWords \ {"only "}) = 1
    /\ (e.min # e.max /\ e.found < e.min) =>
         /\ AtLeastForm(m, e)
         /\ Occurrences(m, ArityWords) = 1
    /\ (e.min # e.max /\ e.found > e.max) =>
         /\ AtMostForm(m, e)
         /\ Occurrences(m, ArityWords) = 1

C3_Witness ==
  /\ Rendered
  /\ error.variant = "ArgumentCountMismatch"
  /\ error.min = error.max
  /\ error.found > error.min
  /\ Has(PrimaryMessage, "only ")

LineWords == {"' failed on line ", "' was terminated on line "}
Numerals  == {ToString(n) : n \in Codes \cup Signals \cup (1..MaxLine)}

\* how many numbers the message of the variant carries besides a line number
OwnNumbers(e) == IF e.variant = "Unknown" THEN 0 ELSE 1

(***************************************************************************)
(* C4.  The messages of Code, Signal and Unknown name the recipe and       *)
(* report a line number n iff line_number is Some(n); with line_number =   *)
(* None no line number appears.  Code{recipe, Some(1), 3} renders the      *)
(* recipe, line 1 and exit code 3.                                         *)
(***************************************************************************)
C4_LineNumberIffKnown ==
  (Rendered /\ error.variant \in {"Code", "Signal", "Unknown"}) =>
    LET m == PrimaryMessage
        e == error
    IN
    /\ Follows(m, "Recipe '", e.recipe)
    /\ e.line_number # None =>
         /\ \E w \in LineWords : Follows(m, w, ToString(e.line_number[1]))
         /\ Occurrences(m, LineWords) = 1
         /\ Occurrences(m, Numerals) = OwnNumbers(e) + 1
    /\ e.line_number = None =>
         /\ Occurrences(m, LineWords) = 0
         /\ Occurrences(m, Numerals) = OwnNumbers(e)
    /\ (e.variant = "Code" /\ e.line_number = Some(1) /\ e.code = 3) =>
         m = <<"Recipe '", e.recipe, "' failed on line ", "1", " with exit code ", "3">>

C4_Witness ==
  /\ Rendered
  /\ error.variant = "Code"
  /\ error.line_number = Some(1)
  /\ error.code = 3
  /\ Follows(PrimaryMessage, "' failed on line ", "1")

IsLaunchIo(e) ==
  \/ e.variant = "Io"
  \/ (e.variant \in {"Backtick", "Cygpath"} /\ e.output_error.tag = "Io")

LaunchIoError(e) == IF e.variant = "Io" THEN e.io_error ELSE e.output_error.io_error

LaunchClasses == {"not found", "not runnable", "generic"}

LaunchClass(io_error) ==
  IF io_error.kind = "NotFound" THEN "not found"
  ELSE IF io_error.kind = "PermissionDenied" THEN "not runnable"
  ELSE "generic"

LaunchWords(variant, class) ==
  CASE variant = "Io" ->
         (CASE class = "not found" ->
                 "' could not be run because just could not find the shell: "
            [] class = "not runnable" ->
                 "' could not be run because just could not run the shell: "
            [] class = "generic" ->
                 "' could not be run because of an IO error while launching the shell: ")
    [] variant = "Backtick" ->
         (CASE class = "not found" ->
                 "Backtick could not be run because just could not find the shell:"
            [] class = "not runnable" ->
                 "Backtick could not be run because just could not run the shell:"
            [] class = "generic" ->
                 "Backtick could not be run because of an IO error while launching the shell:")
    [] variant = "Cygpath" ->
         (CASE class = "not found" ->
                 "Could not find 'cygpath' executable to translate recipe '"
            [] class = "not runnable" ->
                 "Could not run 'cygpath' executable to translate recipe '"
            [] class = "generic" ->
                 "Could not run 'cygpath' executable:")

(***************************************************************************)
(* C5.  A launch-time IO failure is rendered by the kind of its io error   *)
(* as exactly one of three messages: NotFound the "could not find" one,    *)
(* PermissionDenied the "could not run" one, every other kind the generic  *)
(* one; the three are distinct, and Io, Backtick with an Io output error   *)
(* and Cygpath with an Io output error are classified the same way.        *)
(***************************************************************************)
C5_LaunchIoClassified ==
  (Rendered /\ IsLaunchIo(error)) =>
    LET m == PrimaryMessage
        class == LaunchClass(LaunchIoError(error))
    IN
    /\ Has(m, LaunchWords(error.variant, class))
    /\ \A other \in LaunchClasses \ {class} :
         /\ ~ Has(m, LaunchWords(error.variant, other))
         /\ LaunchWords(error.variant, other) # LaunchWords(error.variant, class)
    /\ m[Len(m)] = IoErrorDisplay(LaunchIoError(error))

C5_Witness ==
  /\ Rendered
  /\ error.variant = "Cygpath"
  /\ error.output_error.tag = "Io"
  /\ error.output_error.io_error.kind = "TimedOut"
  /\ Has(PrimaryMessage, "Could not run 'cygpath' executable:")

(***************************************************************************)
(* C6.  As claimed: the primary message of every Error value is a single   *)
(* line, it contains no line break.                                        *)
(***************************************************************************)
C6_PrimaryMessageSingleLine ==
  Rendered => LineBreaks(PrimaryMessage) = 0

BreaksLine(e) ==
  \/ (e.variant \in {"Backtick", "Cygpath"} /\ e.output_error.tag = "Io")
  \/ (e.variant \in {"EvalUnknownVariable", "UnknownRecipes"} /\ e.suggestion # None)

(***************************************************************************)
(* C6, amended.  The primary message is a single line for every Error      *)
(* value except a Backtick or Cygpath launch IO error and an               *)
(* EvalUnknownVariable or UnknownRecipes with a suggestion; for these it   *)
(* is two lines, the io error or the suggestion standing on the second.    *)
(***************************************************************************)
C6_SingleLineExceptIoAndSuggestion ==
  Rendered =>
    LET m == PrimaryMessage IN
    /\ ~ BreaksLine(error) => LineBreaks(m) = 0
    /\ BreaksLine(error) =>
         /\ LineBreaks(m) = 1
         /\ m[Len(m) - 1] = NL
         /\ m[Len(m)] = (IF error.variant \in {"Backtick", "Cygpath"}
                         THEN IoErrorDisplay(error.output_error.io_error)
                         ELSE error.suggestion[1])

C6_Witness ==
  /\ Rendered
  /\ error.variant = "Backtick"
  /\ error.output_error.tag = "Io"
  /\ LineBreaks(PrimaryMessage) = 1

StageRank(stage) ==
  CASE stage = "prefix" -> 1
    [] stage = "message" -> 2
    [] stage = "suffix" -> 3
    [] stage = "usage" -> 4
    [] stage = "context" -> 5

HasStage(f, stage) == \E i \in 1..Len(f) : f[i].stage = stage

\* the runs of the usage line from "    just " on
UsageSignature(u) ==
  LET at == CHOOSE i \in 1..Len(u) : u[i] = "    just "
  IN SubSeq(u, at + 1, Len(u))

(***************************************************************************)
(* C7.  fmt writes its parts in the order prefix, primary message, message *)
(* suffix, usage line, source excerpt; the usage line ("usage: just        *)
(* recipe" and each parameter in declaration order) is written iff the     *)
(* error is ArgumentCountMismatch; the source excerpt is written iff       *)
(* context() is Some, that is exactly for Backtick, Compile, FunctionCall. *)
(***************************************************************************)
C7_PartsInOrder ==
  Rendered =>
    /\ \A i, j \in 1..Len(out) :
         i < j => StageRank(out[i].stage) <= StageRank(out[j].stage)
    /\ Has(StageText(out, "prefix"), "error")
    /\ HasStage(out, "usage") <=> error.variant = "ArgumentCountMismatch"
    /\ error.variant = "ArgumentCountMismatch" =>
         /\ Follows(UsageLine, NL, "    just ")
         /\ Has(UsageLine, "usage")
         /\ UsageSignature(UsageLine) = <<error.recipe>> \o UsageParameters(error.parameters)
         /\ \A i \in 1..Len(error.parameters) :
              UsageSignature(UsageLine)[2 * i + 1] = error.parameters[i]
    /\ HasStage(out, "context") <=> context(error) # None
    /\ HasStage(out, "context") <=> error.variant \in {"Backtick", "Compile", "FunctionCall"}

C7_Witness ==
  /\ Rendered
  /\ error.variant = "ArgumentCountMismatch"
  /\ Len(error.parameters) = MaxParams
  /\ HasStage(out, "usage")
  /\ ~ HasStage(out, "context")

(***************************************************************************)
(* C10.  For an ArgumentCountMismatch with min # max and                   *)
(* min <= found <= max fmt writes an empty primary message and still       *)
(* appends the usage line; the primary message of an ArgumentCountMismatch *)
(* is non-empty only when found is outside [min, max] or min = max.        *)
(***************************************************************************)
C10_InRangeArityIsSilent ==
  (Rendered /\ error.variant = "ArgumentCountMismatch") =>
    LET inRange == error.min <= error.found /\ error.found <= error.max IN
    /\ (error.min # error.max /\ inRange) =>
         /\ PrimaryMessage = <<>>
         /\ HasStage(out, "prefix")
         /\ HasStage(out, "usage")
    /\ PrimaryMessage # <<>> => (~ inRange \/ error.min = error.max)

C10_Witness ==
  /\ Rendered
  /\ error.variant = "ArgumentCountMismatch"
  /\ error.min < error.found
  /\ error.found < error.max
  /\ PrimaryMessage = <<>>
  /\ HasStage(out, "usage")

(***************************************************************************)
(* The Argument Binder and the selection of the default recipe.            *)
(*                                                                         *)
(* A recipe declares `required` fixed parameters without default, then     *)
(* `defaulted` fixed parameters with one, then possibly a variadic one     *)
(* ("plus": one or more, "star": zero or more).  An invocation either      *)
(* names the recipe and supplies arguments, or names nothing, and the      *)
(* recipe is then the implicitly selected default recipe.                  *)
(***************************************************************************)
MaxSupplied == 3   \* a named invocation supplies at most MaxSupplied arguments

Unbounded == 2147483647

Signatures ==
  {[required |-> r, defaulted |-> d, variadic |-> v] :
     r \in 0..MaxParams, d \in 0..MaxParams, v \in {"none", "plus", "star"}}

ParametersOf(sig) ==
  [i \in 1..(sig.required + sig.defaulted) |-> "p" \o ToString(i)]
    \o (IF sig.variadic = "none" THEN <<>> ELSE <<"rest">>)

Supplied(n) == [i \in 1..n |-> "arg" \o ToString(i)]

Invocations ==
  {[recipe |-> r, signature |-> sig, named |-> nm, supplied |-> Supplied(n)] :
     r \in Recipes,
     sig \in {g \in Signatures : g.required + g.defaulted <= MaxParams},
     nm \in BOOLEAN, n \in 0..MaxSupplied}

MinArguments(sig) == sig.required + (IF sig.variadic = "plus" THEN 1 ELSE 0)

MaxArguments(sig) ==
  IF sig.variadic = "none" THEN sig.required + sig.defaulted ELSE Unbounded

Ok(value) == [ok |-> TRUE, value |-> value]
Err(e)    == [ok |-> FALSE, error |-> e]

\* bind: positional binding of the supplied arguments; an unsupplied fixed
\* parameter takes its default, the variadic parameter the remaining ones.
Bind(recipe, sig, supplied) ==
  LET found == Len(supplied)
      min   == MinArguments(sig)
      max   == MaxArguments(sig)
      fixed == sig.required + sig.defaulted
  IN
  IF found < min \/ found > max
  THEN Err(ArgumentCountMismatch(recipe, ParametersOf(sig), found, min, max))
  ELSE Ok([i \in 1..Len(ParametersOf(sig)) |->
             IF i <= fixed
             THEN (IF i <= found THEN <<supplied[i]>> ELSE <<"default of p" \o ToString(i)>>)
             ELSE (IF found > fixed THEN SubSeq(supplied, fixed + 1, found) ELSE <<>>)])

\* fault: the default recipe bound like a named one
RunDefaultRecipe_GenericArity(recipe, sig) == Bind(recipe, sig, <<>>)

\* no recipe is named: the default recipe runs with no arguments, unless it
\* requires some
RunDefaultRecipe(recipe, sig) ==
  IF MinArguments(sig) > 0
  THEN Err(DefaultRecipeRequiresArguments(recipe, MinArguments(sig)))
  ELSE Bind(recipe, sig, <<>>)

BindInit ==
  /\ invocation \in {i \in Invocations : ~ i.named => i.supplied = <<>>}
  /\ bound = None
  /\ error = Unset /\ color = "never" /\ out = <<>>
  /\ exit_code = Unset /\ printed = Unset /\ called = {}
  /\ table = <<>> /\ requests = <<>> /\ plan = <<>> /\ executed = <<>>
  /\ phase = "idle"

RunNamed ==
  /\ bound = None
  /\ invocation.named
  /\ LET result == Bind(invocation.recipe, invocation.signature, invocation.supplied) IN
       /\ bound' = Some(result)
       /\ error' = IF result.ok THEN error ELSE result.error
  /\ UNCHANGED <<invocation, color, out, exit_code, printed, called, planVars>>

RunDefault ==
  /\ bound = None
  /\ ~ invocation.named
  /\ LET result == RunDefaultRecipe(invocation.recipe, invocation.signature) IN
       /\ bound' = Some(result)
       /\ error' = IF result.ok THEN error ELSE result.error
  /\ UNCHANGED <<invocation, color, out, exit_code, printed, called, planVars>>

\* a failed run is reported: the error is rendered by fmt
Report ==
  /\ bound # None
  /\ ~ bound[1].ok
  /\ "fmt" \notin called
  /\ out' = fmt(error, color)
  /\ called' = called \cup {"fmt"}
  /\ UNCHANGED <<error, color, exit_code, printed, bindVars, planVars>>

BindNext == RunNamed \/ RunDefault \/ Report

BindSpec == BindInit /\ [][BindNext]_vars

(***************************************************************************)
(* C8.  With no recipe named, a default recipe that requires at least one  *)
(* argument (min >= 1) fails with DefaultRecipeRequiresArguments carrying  *)
(* the recipe and min_arguments = min, never with ArgumentCountMismatch;   *)
(* the same arity failure of a named recipe is ArgumentCountMismatch.      *)
(***************************************************************************)
C8_DefaultRecipeNeedsArguments ==
  bound # None =>
    LET result == bound[1]
        sig == invocation.signature
        min == MinArguments(sig)
        found == Len(invocation.supplied)
    IN
    /\ (~ invocation.named /\ min >= 1) =>
         /\ ~ result.ok
         /\ result.error = DefaultRecipeRequiresArguments(invocation.recipe, min)
         /\ error = result.error
         /\ Rendered => Follows(PrimaryMessage, "Recipe '", invocation.recipe)
                          /\ Has(PrimaryMessage,
                                 "' cannot be used as default recipe since it requires at least ")
    /\ ~ invocation.named => (result.ok \/ result.error.variant # "ArgumentCountMismatch")
    /\ (invocation.named /\ (found < min \/ found > MaxArguments(sig))) =>
         /\ ~ result.ok
         /\ result.error.variant = "ArgumentCountMismatch"
         /\ result.error.recipe = invocation.recipe
         /\ result.error.found = found
         /\ result.error.min = min
         /\ result.error.max = MaxArguments(sig)

C8_Witness ==
  /\ bound # None
  /\ ~ invocation.named
  /\ MinArguments(invocation.signature) = 1
  /\ ~ bound[1].ok
  /\ bound[1].error.variant = "DefaultRecipeRequiresArguments"
  /\ Rendered

(***************************************************************************)
(* The Dependency Resolver and Execution Planner.                          *)
(*                                                                         *)
(* Every recipe of the table takes one argument.  A dependency names a     *)
(* recipe and the argument expression to pass it: a literal, or the        *)
(* caller's own parameter; the expression is evaluated in the caller's     *)
(* scope.  An entry of the plan is a recipe with its resolved argument.    *)
(* The tables are acyclic: a recipe depends only on recipes of lower rank  *)
(* in PlanRecipes.                                                         *)
(***************************************************************************)
MaxDeps     == 2   \* a recipe declares at most MaxDeps dependencies
MaxRequests == 2   \* an invocation requests at most MaxRequests recipes

PlanRecipes == <<"a", "b", "c">>
Arguments   == {"x", "y"}
ArgumentExpressions == {"'x'", "{{p}}"}

Rank(name) == CHOOSE i \in 1..Len(PlanRecipes) : PlanRecipes[i] = name

Dependencies(i) ==
  SeqsUpTo({[recipe |-> PlanRecipes[j], argument |-> x] :
              j \in 1..(i - 1), x \in ArgumentExpressions}, MaxDeps)

Tables ==
  {t \in [1..Len(PlanRecipes) -> UNION {Dependencies(i) : i \in 1..Len(PlanRecipes)}] :
     \A i \in 1..Len(PlanRecipes) : t[i] \in Dependencies(i)}

Entries == {[recipe |-> PlanRecipes[i], argument |-> x] : i \in 1..Len(PlanRecipes), x \in Arguments}

RequestSets == SeqsUpTo(Entries, MaxRequests) \ {<<>>}

\* evaluate: a dependency's argument expression in the caller's scope
Evaluate(expression, scope) == IF expression = "{{p}}" THEN scope ELSE "x"

\* the dependencies of a plan entry, resolved, in declaration order
ResolvedDependencies(t, entry) ==
  LET deps == t[Rank(entry.recipe)]
  IN [k \in 1..Len(deps) |->
        [recipe |-> deps[k].recipe, argument |-> Evaluate(deps[k].argument, entry.argument)]]

InPlan(p, entry) == \E k \in 1..Len(p) : p[k] = entry

\* fault: a pair already resolved is visited again
RECURSIVE Visit_NoDedup(_, _, _, _)
Visit_NoDedup(t, entry, path, acc) ==
  IF ~ acc.ok \/ entry.recipe \in path THEN [acc EXCEPT !.ok = FALSE]
  ELSE
    LET deps == ResolvedDependencies(t, entry)
        after[k \in 0..Len(deps)] ==
          IF k = 0 THEN acc
          ELSE Visit_NoDedup(t, deps[k], path \cup {entry.recipe}, after[k - 1])
        resolved == after[Len(deps)]
    IN IF resolved.ok THEN [resolved EXCEPT !.plan = Append(@, entry)] ELSE resolved

\* the depth-first visit of one (recipe, argument) pair: a pair already
\* resolved is not enqueued again, dependencies are emitted in declaration
\* order before their dependent, a recipe on the current path is a cycle
RECURSIVE Visit(_, _, _, _)
Visit(t, entry, path, acc) ==
  IF ~ acc.ok \/ entry.recipe \in path THEN [acc EXCEPT !.ok = FALSE]
  ELSE IF InPlan(acc.plan, entry) THEN acc
  ELSE
    LET deps == ResolvedDependencies(t, entry)
        after[k \in 0..Len(deps)] ==
          IF k = 0 THEN acc
          ELSE Visit(t, deps[k], path \cup {entry.recipe}, after[k - 1])
        resolved == after[Len(deps)]
    IN IF resolved.ok THEN [resolved EXCEPT !.plan = Append(@, entry)] ELSE resolved

\* plan(table, requests)
Plan(t, reqs) ==
  LET after[k \in 0..Len(reqs)] ==
        IF k = 0 THEN [ok |-> TRUE, plan |-> <<>>]
        ELSE Visit(t, reqs[k], {}, after[k - 1])
  IN after[Len(reqs)]

PlanInit ==
  /\ table \in Tables
  /\ requests \in RequestSets
  /\ plan = <<>>
  /\ executed = <<>>
  /\ phase = "requested"
  /\ invocation = Unset /\ bound = None
  /\ error = Unset /\ color = "never" /\ out = <<>>
  /\ exit_code = Unset /\ printed = Unset /\ called = {}

BuildPlan ==
  /\ phase = "requested"
  /\ LET built == Plan(table, requests) IN
       /\ plan' = built.plan
       /\ phase' = IF built.ok THEN "planned" ELSE "failed"
  /\ UNCHANGED <<table, requests, executed, errorVars, bindVars>>

\* the next plan entry runs to completion and succeeds
RunEntry ==
  /\ phase = "planned"
  /\ Len(executed) < Len(plan)
  /\ executed' = Append(executed, plan[Len(executed) + 1])
  /\ phase' = IF Len(executed') = Len(plan) THEN "done" ELSE "planned"
  /\ UNCHANGED <<table, requests, plan, errorVars, bindVars>>

\* the next plan entry runs and fails: the remaining entries are aborted
FailEntry ==
  /\ phase = "planned"
  /\ Len(executed) < Len(plan)
  /\ executed' = Append(executed, plan[Len(executed) + 1])
  /\ phase' = "failed"
  /\ UNCHANGED <<table, requests, plan, errorVars, bindVars>>

PlanNext == BuildPlan \/ RunEntry \/ FailEntry

PlanSpec == PlanInit /\ [][PlanNext]_vars

(***************************************************************************)
(* C9.  For every acyclic recipe table and every request set, in the plan  *)
(* built and run in order every dependency of an entry is executed         *)
(* strictly before that entry, and each distinct (recipe, resolved         *)
(* arguments) pair is executed at most once per run, even when it is       *)
(* reachable through several dependency paths.                             *)
(***************************************************************************)
C9_DependenciesFirstAndOnce ==
  /\ \A i \in 1..Len(executed) :
       LET deps == ResolvedDependencies(table, executed[i]) IN
       \A k \in 1..Len(deps) : \E j \in 1..(i - 1) : executed[j] = deps[k]
  /\ \A i, j \in 1..Len(executed) : i # j => executed[i] # executed[j]
  /\ executed = SubSeq(plan, 1, Len(executed))
  /\ phase = "done" => \A k \in 1..Len(requests) : InPlan(executed, requests[k])

\* a finished run in which one pair was reached through two paths
C9_Witness ==
  /\ phase = "done"
  /\ \E i \in 1..Len(executed) :
       Cardinality({j \in 1..Len(executed) :
                      InPlan(ResolvedDependencies(table, executed[j]), executed[i])}) >= 2

====
